---------------------------- MODULE Spec2Model ----------------------------
(***************************************************************************)
(* Branch and bound for the 0/1 knapsack (project selection), modelled     *)
(* from src/src/optimization/branch_and_bound.py.                          *)
(*                                                                         *)
(* The state is the caller's project list (shared by reference with the    *)
(* solver object), the fields of the current BranchAndBound object, the    *)
(* local priority queue of the running solve call, and the history of      *)
(* results the caller has collected (as the budget sweep of                *)
(* run_sensitivity_analysis and the reproducibility test do).              *)
(*                                                                         *)
(* Numbers: costs, impacts and budgets are small integers.  The only       *)
(* non-integer quantities of the program are Project.efficiency and        *)
(* Node.bound; both are kept as exact rationals [n, d] in lowest terms     *)
(* with d > 0.  For costs in 1..2 every quotient is dyadic, so the         *)
(* program's double arithmetic is exact on the modelled inputs.  Costs     *)
(* and impacts are Python numbers: dividing by a cost of 0 raises          *)
(* ZeroDivisionError.  Project ids are unique within a list.               *)
(***************************************************************************)
EXTENDS Integers, Sequences, FiniteSets, TLC

(* ------------------------------ bounds -------------------------------- *)
MaxItems  == 3      \* longest project list the caller supplies
MaxCost   == 1      \* largest project cost
MaxImpact == 1      \* largest project impact
MaxBudget == 2      \* largest budget the caller asks for
MaxCalls  == 2      \* solve calls a caller makes on one list
RawItems  == 2      \* longest list of unvalidated project data
IdItems   == 2      \* longest list whose ids the caller assigns freely

None == [level |-> -1]

(* ------------------------- exact rationals ---------------------------- *)
Abs(x) == IF x < 0 THEN -x ELSE x

RECURSIVE GCD(_, _)
GCD(a, b) == IF b = 0 THEN a ELSE GCD(b, a % b)

\* num/den for den # 0, in lowest terms with a positive denominator
Rat(num, den) ==
    LET g == GCD(Abs(num), Abs(den))
        s == IF den < 0 THEN -1 ELSE 1
    IN  [n |-> (s * num) \div g, d |-> (s * den) \div g]

RatOfInt(i) == [n |-> i, d |-> 1]
RatLE(a, b) == a.n * b.d <= b.n * a.d
RatLT(a, b) == a.n * b.d <  b.n * a.d
RatGT(a, b) == RatLT(b, a)
RatGE(a, b) == RatLE(b, a)

(* ------------------------------ Project ------------------------------- *)
\* Project.__post_init__: efficiency = impact / cost if cost > 0 else 0.0
efficiency(cost, impact) ==
    IF cost > 0 THEN Rat(impact, cost) ELSE RatOfInt(0)

Project(id, cost, impact) ==
    [id |-> id, cost |-> cost, impact |-> impact,
     efficiency |-> efficiency(cost, impact)]

(* ------------- list.sort(key=efficiency, reverse=True) ---------------- *)
\* The sort is stable: projects of equal efficiency keep their relative
\* order.  InsertDesc puts p behind every element whose key is >= p's key.
\* an insertion that is not stable: p goes in front of the elements whose
\* key equals its own
RECURSIVE InsertDesc_before(_, _)
InsertDesc_before(s, p) ==
    IF s = << >> THEN << p >>
    ELSE IF RatGT(Head(s).efficiency, p.efficiency)
         THEN << Head(s) >> \o InsertDesc_before(Tail(s), p)
         ELSE << p >> \o s

RECURSIVE InsertDesc(_, _)
InsertDesc(s, p) ==
    IF s = << >> THEN << p >>
    ELSE IF RatGE(Head(s).efficiency, p.efficiency)
         THEN << Head(s) >> \o InsertDesc(Tail(s), p)
         ELSE << p >> \o s

\* the sort left out: the list stays as the caller wrote it
SortKeepOrder(s) == s

RECURSIVE SortByEfficiency(_)
SortByEfficiency(s) ==
    IF s = << >> THEN << >>
    ELSE InsertDesc(SortByEfficiency(SubSeq(s, 1, Len(s) - 1)), s[Len(s)])


(* -------------------------------- Node -------------------------------- *)
\* the constructor called with total_impact and total_cost exchanged
Node_swapped(level, selected, total_cost, total_impact, bound) ==
    [level |-> level, selected |-> selected, total_cost |-> total_impact,
     total_impact |-> total_cost, bound |-> bound]

Node(level, selected, total_cost, total_impact, bound) ==
    [level |-> level, selected |-> selected, total_cost |-> total_cost,
     total_impact |-> total_impact, bound |-> bound]

\* __lt__ written with "<": the heap yields the smallest bound first
NodeLT_min(a, b) == RatLT(a.bound, b.bound)

\* Node.__lt__: the node with the larger bound is the "smaller" heap element
NodeLT(a, b) == RatGT(a.bound, b.bound)

(* --------------------------- calculate_bound -------------------------- *)
\* The for-loop of calculate_bound from 0-based index i on.  The result is
\* [raised, value]: raised is the ZeroDivisionError of remaining / cost when
\* a project of cost 0 does not fit (remaining < 0).
RECURSIVE BoundLoop(_, _, _, _, _)
BoundLoop(ps, n, i, bound, remaining) ==
    IF i >= n THEN [raised |-> FALSE, value |-> RatOfInt(bound)]
    ELSE LET project == ps[i + 1] IN
         IF project.cost <= remaining
         THEN BoundLoop(ps, n, i + 1, bound + project.impact,
                        remaining - project.cost)
         ELSE IF project.cost = 0
              THEN [raised |-> TRUE, value |-> RatOfInt(0)]
              ELSE [raised |-> FALSE,
                    value  |-> Rat(bound * project.cost
                                     + project.impact * remaining,
                                   project.cost)]

\* bound started at 0 instead of node.total_impact
calculate_bound_fresh(ps, n, b, node) ==
    BoundLoop(ps, n, node.level, 0, b - node.total_cost)

\* the loop written as range(n_projects): it starts at the first project
\* instead of the first undecided one
calculate_bound_all(ps, n, b, node) ==
    BoundLoop(ps, n, 0, node.total_impact, b - node.total_cost)

calculate_bound(ps, n, b, node) ==
    BoundLoop(ps, n, node.level, node.total_impact, b - node.total_cost)

(* --------------------- is_feasible / should_prune --------------------- *)
\* is_feasible reading the wrong field of the node
is_feasible_impact(node, b) == node.total_impact <= b

\* is_feasible written with "<"
is_feasible_strict(node, b) == node.total_cost < b

\* is_feasible without the budget test
is_feasible_always(node, b) == TRUE

is_feasible(node, b) == node.total_cost <= b

\* should_prune without the feasibility test
should_prune_bound_only(node, b, bestv) ==
    IF RatLE(node.bound, RatOfInt(bestv))
    THEN [prune |-> TRUE, reason |-> "bound"]
    ELSE [prune |-> FALSE, reason |-> "none"]

\* the bound test written with "<": a bound that ties best_value survives
should_prune_strict(node, b, bestv) ==
    IF ~ is_feasible(node, b) THEN [prune |-> TRUE, reason |-> "infeasible"]
    ELSE IF RatLT(node.bound, RatOfInt(bestv))
         THEN [prune |-> TRUE, reason |-> "bound"]
         ELSE [prune |-> FALSE, reason |-> "none"]

\* should_prune without its counter increments; the reason says which
\* counter the caller increments
should_prune(node, b, bestv) ==
    IF ~ is_feasible(node, b) THEN [prune |-> TRUE, reason |-> "infeasible"]
    ELSE IF RatLE(node.bound, RatOfInt(bestv))
         THEN [prune |-> TRUE, reason |-> "bound"]
         ELSE [prune |-> FALSE, reason |-> "none"]

\* update_best_solution's condition
improves(node, b, bestv) == is_feasible(node, b) /\ node.total_impact > bestv

(* -------------------------------- heapq ------------------------------- *)
\* 0-based access to a heap list
At(h, i) == h[i + 1]
Put(h, i, x) == [h EXCEPT ![i + 1] = x]

RECURSIVE SiftDown(_, _, _, _)
SiftDown(h, startpos, pos, newitem) ==
    IF pos > startpos
    THEN LET parentpos == (pos - 1) \div 2
             parent == At(h, parentpos)
         IN  IF NodeLT(newitem, parent)
             THEN SiftDown(Put(h, pos, parent), startpos, parentpos, newitem)
             ELSE Put(h, pos, newitem)
    ELSE Put(h, pos, newitem)

RECURSIVE SiftUpLoop(_, _, _, _)
SiftUpLoop(h, startpos, pos, newitem) ==
    LET endpos == Len(h)
        childpos == 2 * pos + 1
        rightpos == childpos + 1
        c == IF rightpos < endpos /\ ~ NodeLT(At(h, childpos), At(h, rightpos))
             THEN rightpos ELSE childpos
    IN  IF childpos < endpos
        THEN SiftUpLoop(Put(h, pos, At(h, c)), startpos, c, newitem)
        ELSE SiftDown(Put(h, pos, newitem), startpos, pos, newitem)

heappush(h, item) == SiftDown(Append(h, item), 0, Len(h), item)

\* list.pop() in place of heapq.heappop: the last element of the list
heappop_last(h) ==
    [item |-> h[Len(h)], heap |-> SubSeq(h, 1, Len(h) - 1)]

\* heappop: [item, heap]
heappop(h) ==
    LET lastelt == h[Len(h)]
        rest == SubSeq(h, 1, Len(h) - 1)
    IN  IF rest = << >> THEN [item |-> lastelt, heap |-> rest]
        ELSE [item |-> rest[1],
              heap |-> SiftUpLoop(Put(rest, 0, lastelt), 0, 0, lastelt)]

(* -------------------------- greedy_heuristic -------------------------- *)
\* the loop with a "break" at the first project that does not fit
RECURSIVE GreedyLoop_break(_, _, _, _, _)
GreedyLoop_break(sorted_projects, b, selected, total_cost, total_impact) ==
    IF sorted_projects = << >>
          \/ total_cost + Head(sorted_projects).cost > b
    THEN [selected_projects |-> selected, total_cost |-> total_cost,
          total_impact |-> total_impact,
          n_projects_selected |-> Len(selected)]
    ELSE GreedyLoop_break(Tail(sorted_projects), b,
                          Append(selected, Head(sorted_projects)),
                          total_cost + Head(sorted_projects).cost,
                          total_impact + Head(sorted_projects).impact)

RECURSIVE GreedyLoop(_, _, _, _, _)
GreedyLoop(sorted_projects, b, selected, total_cost, total_impact) ==
    IF sorted_projects = << >>
    THEN [selected_projects |-> selected, total_cost |-> total_cost,
          total_impact |-> total_impact,
          n_projects_selected |-> Len(selected)]
    ELSE LET project == Head(sorted_projects) IN
         IF total_cost + project.cost <= b
         THEN GreedyLoop(Tail(sorted_projects), b, Append(selected, project),
                         total_cost + project.cost,
                         total_impact + project.impact)
         ELSE GreedyLoop(Tail(sorted_projects), b, selected,
                         total_cost, total_impact)

greedy_heuristic(ps, b) ==
    [status |-> "heuristic",
     solution |-> GreedyLoop(SortByEfficiency(ps), b, << >>, 0, 0)]

(* ----------------------- result and validation ------------------------ *)
SelectSeq2(s, ids) ==
    LET Test(p) == \E k \in 1..Len(ids) : ids[k] = p.id IN SelectSeq(s, Test)

get_metrics(expanded, infeasible, bound, depth) ==
    [nodes_expanded |-> expanded,
     nodes_pruned_total |-> infeasible + bound,
     nodes_pruned_infeasible |-> infeasible,
     nodes_pruned_bound |-> bound,
     max_depth |-> depth]

prepare_result(ps, best, metrics) ==
    IF best = None
    THEN [status |-> "no_solution", solution |-> None, metrics |-> metrics]
    ELSE LET selected_projects == SelectSeq2(ps, best.selected) IN
         [status |-> "optimal",
          solution |-> [selected_projects |-> selected_projects,
                        total_cost |-> best.total_cost,
                        total_impact |-> best.total_impact,
                        n_projects_selected |-> Len(selected_projects)],
          metrics |-> metrics]

RECURSIVE SumImpact(_)
SumImpact(s) == IF s = << >> THEN 0 ELSE Head(s).impact + SumImpact(Tail(s))

RECURSIVE SumCost(_)
SumCost(s) == IF s = << >> THEN 0 ELSE Head(s).cost + SumCost(Tail(s))

\* validate_solution; on integers the 0.01 tolerance is equality
validate_solution(result, b) ==
    IF result.status # "optimal" THEN FALSE
    ELSE IF result.solution.total_cost > b THEN FALSE
    ELSE IF SumImpact(result.solution.selected_projects)
              # result.solution.total_impact THEN FALSE
    ELSE TRUE

(* ------------------------------- state -------------------------------- *)
VARIABLES
    projects,                 \* the caller's list; self.projects is this list
    pc,                       \* where the caller is
    obj,                      \* number of BranchAndBound objects built
    budget, n_projects,       \* self.budget, self.n_projects
    nodes_expanded, nodes_pruned_infeasible, nodes_pruned_bound, max_depth,
    best_solution, best_value,
    priority_queue,           \* local heap of the running solve call
    results,                  \* results the caller has collected
    heuristic,                \* result of greedy_heuristic, or None
    asked,                    \* the budget the caller passed to the constructor
    tally                     \* what the running solve call has done so far

vars == << projects, pc, obj, budget, n_projects, nodes_expanded,
           nodes_pruned_infeasible, nodes_pruned_bound, max_depth,
           best_solution, best_value, priority_queue, results, heuristic,
           asked, tally >>

solver == << budget, n_projects, nodes_expanded, nodes_pruned_infeasible,
             nodes_pruned_bound, max_depth, best_solution, best_value >>

(* ------------------------------- inputs ------------------------------- *)
\* project lists of length n over the given costs and impacts; the ids are
\* unique and number the projects in the caller's order
Lists(n, Costs, Impacts) ==
    { [i \in 1..n |-> Project(i, ci[i][1], ci[i][2])] :
        ci \in [1..n -> Costs \X Impacts] }

ListsUpTo(n, Costs, Impacts) ==
    UNION { Lists(k, Costs, Impacts) : k \in 0..n }

BudgetInputs == -1 .. MaxBudget

\* the four-project portfolio of the budget sweep, as (cost, impact)
Portfolio == << <<1, 1>>, <<2, 0>>, <<1, 0>>, <<0, 2>> >>

\* the portfolio in the order written above
PortfolioLists0 ==
    [i \in 1..Len(Portfolio) |-> Project(i, Portfolio[i][1], Portfolio[i][2])]

\* the portfolio in every order the caller can list it
PortfolioLists ==
    { [i \in 1..Len(Portfolio) |-> Project(i, Portfolio[f[i]][1], Portfolio[f[i]][2])] :
        f \in { g \in [1..Len(Portfolio) -> 1..Len(Portfolio)] :
                   \A i, j \in 1..Len(Portfolio) : i # j => g[i] # g[j] } }

\* nothing done yet: heappush and heappop calls, popped nodes by what
\* became of them, children created, children created over the budget
Tally0 ==
    [pushes |-> 0, pops |-> 0, pruned |-> 0, leaves |-> 0, expansions |-> 0,
     children |-> 0, over_budget |-> 0]

Blank ==
    /\ pc = "init"
    /\ obj = 0
    /\ budget = 0 /\ n_projects = 0
    /\ nodes_expanded = 0 /\ nodes_pruned_infeasible = 0
    /\ nodes_pruned_bound = 0 /\ max_depth = 0
    /\ best_solution = None /\ best_value = 0
    /\ priority_queue = << >>
    /\ results = << >>
    /\ heuristic = None
    /\ asked = 0
    /\ tally = Tally0

\* valid project data: costs >= 0, impacts >= 0
Init ==
    /\ projects \in ListsUpTo(MaxItems, 0..MaxCost, 0..MaxImpact)
    /\ Blank

\* project data as the constructors take it: nothing checks the sign of a
\* cost or an impact
InitRaw ==
    /\ projects \in ListsUpTo(RawItems, -1..MaxCost, -1..MaxImpact)
    /\ Blank

\* project lists of length n whose ids are 1..n in any order
ListsWithIds(n, Costs, Impacts) ==
    { [i \in 1..n |-> Project(f[i], ci[i][1], ci[i][2])] :
        f \in { g \in [1..n -> 1..n] :
                  \A i, j \in 1..n : i # j => g[i] # g[j] },
        ci \in [1..n -> Costs \X Impacts] }

\* valid project data listed in an order that need not follow the ids
InitIds ==
    /\ projects \in UNION { ListsWithIds(k, 0..MaxCost, 0..MaxImpact) :
                              k \in 0..IdItems }
    /\ Blank

\* the budgets of the sweep: from nothing to the whole portfolio
SweepBudgets == 0 .. SumCost(PortfolioLists0)

\* the caller of a budget sweep or of repeated solves, on the portfolio
InitCalls ==
    /\ projects \in PortfolioLists \cup { << >> }
    /\ Blank

(* --------------------- BranchAndBound.__init__ ------------------------ *)
\* the budget check written as "budget < 0"
rejects_negative_only(ps, b) == ps = << >> \/ b < 0

\* the two ValueError checks
rejects(ps, b) == ps = << >> \/ b <= 0

New(b) ==
    /\ asked' = b
    /\ IF rejects(projects, b)
       THEN /\ pc' = "rejected"
            /\ UNCHANGED << projects, obj, solver, priority_queue, results,
                            heuristic, tally >>
       ELSE /\ pc' = "ready"
            /\ obj' = obj + 1
            /\ budget' = b
            /\ n_projects' = Len(projects)
            /\ projects' = SortByEfficiency(projects)
            /\ nodes_expanded' = 0
            /\ nodes_pruned_infeasible' = 0
            /\ nodes_pruned_bound' = 0
            /\ max_depth' = 0
            /\ best_solution' = None
            /\ best_value' = 0
            /\ heuristic' = None
            /\ UNCHANGED << priority_queue, results, tally >>

\* the first BranchAndBound(projects, b) of the caller
Construct(b) == pc = "init" /\ New(b)

\* a further BranchAndBound(projects, b) on the same list, after a solve
\* (run_sensitivity_analysis, test_reproducible_solution)
Rebuild(b) == pc = "done" /\ Len(results) < MaxCalls /\ New(b)

(* ------------------------ BranchAndBound.solve ------------------------ *)
Max(a, b) == IF a >= b THEN a ELSE b

\* should_prune without "self.nodes_pruned_bound += 1"
CountBound_never(c, sp) == c

\* counter increments of should_prune
CountInfeasible(c, sp) == IF sp.reason = "infeasible" THEN c + 1 ELSE c
CountBound(c, sp) == IF sp.reason = "bound" THEN c + 1 ELSE c

\* root node and first heappush; solve resets nothing of the object
Begin ==
    /\ LET rb == calculate_bound(projects, n_projects, budget,
                                 Node(0, << >>, 0, 0, RatOfInt(0)))
       IN  IF rb.raised
           THEN /\ pc' = "raised"
                /\ tally' = Tally0
                /\ UNCHANGED priority_queue
           ELSE /\ pc' = "running"
                /\ tally' = [Tally0 EXCEPT !.pushes = 1]
                /\ priority_queue' =
                     heappush(<< >>, Node(0, << >>, 0, 0, rb.value))
    /\ UNCHANGED << projects, obj, solver, results, heuristic, asked >>

\* solve() on a freshly built object
SolveBegin == pc = "ready" /\ Begin

\* solve() called again on the object that has already solved
SolveAgain == pc = "done" /\ Len(results) < MaxCalls /\ Begin

\* one iteration of the while loop that ends in the first "continue":
\* the popped node is pruned
PopPrune ==
    /\ pc = "running"
    /\ priority_queue # << >>
    /\ LET popped == heappop(priority_queue)
           current_node == popped.item
           sp == should_prune(current_node, budget, best_value)
       IN  /\ sp.prune
           /\ priority_queue' = popped.heap
           /\ nodes_expanded' = nodes_expanded + 1
           /\ max_depth' = Max(max_depth, current_node.level)
           /\ nodes_pruned_infeasible' = CountInfeasible(nodes_pruned_infeasible, sp)
           /\ nodes_pruned_bound' = CountBound(nodes_pruned_bound, sp)
           /\ tally' = [tally EXCEPT !.pops = @ + 1, !.pruned = @ + 1]
    /\ UNCHANGED << projects, pc, obj, budget, n_projects, best_solution,
                    best_value, results, heuristic, asked >>

\* the leaf branch with update_best_solution assigning best_value only
PopLeaf_value_only ==
    /\ pc = "running"
    /\ priority_queue # << >>
    /\ LET popped == heappop(priority_queue)
           current_node == popped.item
           sp == should_prune(current_node, budget, best_value)
       IN  /\ ~ sp.prune
           /\ current_node.level = n_projects
           /\ priority_queue' = popped.heap
           /\ nodes_expanded' = nodes_expanded + 1
           /\ max_depth' = Max(max_depth, current_node.level)
           /\ best_value' = IF improves(current_node, budget, best_value)
                            THEN current_node.total_impact ELSE best_value
           /\ tally' = [tally EXCEPT !.pops = @ + 1, !.leaves = @ + 1]
    /\ UNCHANGED << projects, pc, obj, budget, n_projects, best_solution,
                    nodes_pruned_infeasible, nodes_pruned_bound, results,
                    heuristic, asked >>

\* one iteration that ends in the second "continue": the popped node is a
\* leaf and update_best_solution is applied to it
PopLeaf ==
    /\ pc = "running"
    /\ priority_queue # << >>
    /\ LET popped == heappop(priority_queue)
           current_node == popped.item
           sp == should_prune(current_node, budget, best_value)
       IN  /\ ~ sp.prune
           /\ current_node.level = n_projects
           /\ priority_queue' = popped.heap
           /\ nodes_expanded' = nodes_expanded + 1
           /\ max_depth' = Max(max_depth, current_node.level)
           /\ IF improves(current_node, budget, best_value)
              THEN /\ best_solution' = current_node
                   /\ best_value' = current_node.total_impact
              ELSE UNCHANGED << best_solution, best_value >>
           /\ tally' = [tally EXCEPT !.pops = @ + 1, !.leaves = @ + 1]
    /\ UNCHANGED << projects, pc, obj, budget, n_projects,
                    nodes_pruned_infeasible, nodes_pruned_bound, results,
                    heuristic, asked >>

\* the child solve builds from current_node: the include child (include =
\* TRUE) or the exclude child, with the bound calculate_bound gives it;
\* raised when calculate_bound raises
Child(ps, n, b, current_node, include) ==
    LET project == ps[current_node.level + 1]
        child0 == IF include
                  THEN Node(current_node.level + 1,
                            Append(current_node.selected, project.id),
                            current_node.total_cost + project.cost,
                            current_node.total_impact + project.impact,
                            RatOfInt(0))
                  ELSE Node(current_node.level + 1, current_node.selected,
                            current_node.total_cost, current_node.total_impact,
                            RatOfInt(0))
        cb == calculate_bound(ps, n, b, child0)
    IN  [raised |-> cb.raised, node |-> [child0 EXCEPT !.bound = cb.value]]

\* one full iteration: the popped node is expanded into the include child
\* and then the exclude child; the ZeroDivisionError of calculate_bound
\* leaves solve with the fields as they are at that point
PopExpand ==
    /\ pc = "running"
    /\ priority_queue # << >>
    /\ LET popped == heappop(priority_queue)
           current_node == popped.item
           sp == should_prune(current_node, budget, best_value)
           project == projects[current_node.level + 1]
           left0 == Node(current_node.level + 1,
                         Append(current_node.selected, project.id),
                         current_node.total_cost + project.cost,
                         current_node.total_impact + project.impact,
                         RatOfInt(0))
           lb == calculate_bound(projects, n_projects, budget, left0)
           left_child == [left0 EXCEPT !.bound = lb.value]
           spl == should_prune(left_child, budget, best_value)
           inf1 == CountInfeasible(nodes_pruned_infeasible, spl)
           bnd1 == CountBound(nodes_pruned_bound, spl)
           q1 == IF spl.prune THEN popped.heap
                 ELSE heappush(popped.heap, left_child)
           right0 == Node(current_node.level + 1, current_node.selected,
                          current_node.total_cost, current_node.total_impact,
                          RatOfInt(0))
           rb == calculate_bound(projects, n_projects, budget, right0)
           right_child == [right0 EXCEPT !.bound = rb.value]
           spr == should_prune(right_child, budget, best_value)
           q2 == IF spr.prune THEN q1 ELSE heappush(q1, right_child)
       IN  /\ ~ sp.prune
           /\ current_node.level # n_projects
           /\ nodes_expanded' = nodes_expanded + 1
           /\ max_depth' = Max(max_depth, current_node.level)
           /\ tally' =
                [tally EXCEPT
                   !.pops = @ + 1,
                   !.expansions = @ + 1,
                   !.children = @ + (IF lb.raised THEN 1 ELSE 2),
                   !.over_budget =
                       @ + (IF left0.total_cost > budget THEN 1 ELSE 0)
                         + (IF ~ lb.raised /\ right0.total_cost > budget
                            THEN 1 ELSE 0),
                   !.pushes =
                       @ + (IF ~ lb.raised /\ ~ spl.prune THEN 1 ELSE 0)
                         + (IF ~ lb.raised /\ ~ rb.raised /\ ~ spr.prune
                            THEN 1 ELSE 0)]
           /\ IF lb.raised
              THEN /\ pc' = "raised"
                   /\ priority_queue' = popped.heap
                   /\ UNCHANGED << nodes_pruned_infeasible, nodes_pruned_bound >>
              ELSE IF rb.raised
              THEN /\ pc' = "raised"
                   /\ priority_queue' = q1
                   /\ nodes_pruned_infeasible' = inf1
                   /\ nodes_pruned_bound' = bnd1
              ELSE /\ pc' = pc
                   /\ priority_queue' = q2
                   /\ nodes_pruned_infeasible' = CountInfeasible(inf1, spr)
                   /\ nodes_pruned_bound' = CountBound(bnd1, spr)
    /\ UNCHANGED << projects, obj, budget, n_projects, best_solution,
                    best_value, results, heuristic, asked >>

\* the loop exits on the empty queue; _prepare_result; the caller keeps the
\* result together with the object and budget it came from
SolveEnd ==
    /\ pc = "running"
    /\ priority_queue = << >>
    /\ pc' = "done"
    /\ results' = Append(results,
         [obj |-> obj, budget |-> budget,
          result |-> prepare_result(projects, best_solution,
                       get_metrics(nodes_expanded, nodes_pruned_infeasible,
                                   nodes_pruned_bound, max_depth))])
    /\ UNCHANGED << projects, obj, solver, priority_queue, heuristic, asked,
                    tally >>

\* the caller runs the greedy baseline on the same list and budget
Greedy ==
    /\ pc = "done"
    /\ heuristic = None
    /\ heuristic' = greedy_heuristic(projects, budget)
    /\ UNCHANGED << projects, pc, obj, solver, priority_queue, results, asked,
                    tally >>

Next ==
    \/ \E b \in BudgetInputs : Construct(b)
    \/ SolveBegin
    \/ PopPrune
    \/ PopLeaf
    \/ PopExpand
    \/ SolveEnd
    \/ Greedy

\* one object, one solve
Spec == Init /\ [][Next]_vars

\* the same, with the caller and the loop of solve always taking their next
\* step: the program is sequential and nothing blocks it
SpecFair == Spec /\ WF_vars(Next)

\* one object, one solve, on unvalidated project data
SpecRaw == InitRaw /\ [][Next]_vars

\* one object, one solve, on a list in any order of ids
SpecIds == InitIds /\ [][Next]_vars

\* a caller that keeps solving on the same list: new objects (any budget)
\* or the same object again
NextCalls ==
    \/ \E b \in SweepBudgets : Construct(b)
    \/ \E b \in SweepBudgets : Rebuild(b)
    \/ SolveBegin
    \/ SolveAgain
    \/ PopPrune
    \/ PopLeaf
    \/ PopExpand
    \/ SolveEnd
    \/ Greedy

SpecCalls == InitCalls /\ [][NextCalls]_vars

\* the last result the caller collected
Last == results[Len(results)]


(* ====================================================================== *)
(*                               Properties                               *)
(* ====================================================================== *)

\* a valid instance: every cost and every impact is >= 0
ValidInstance(ps) ==
    \A i \in 1..Len(ps) : ps[i].cost >= 0 /\ ps[i].impact >= 0

\* total cost / impact of the projects of ps whose index is in S
RECURSIVE CostOf(_, _, _)
CostOf(ps, S, i) ==
    IF i = 0 THEN 0
    ELSE (IF i \in S THEN ps[i].cost ELSE 0) + CostOf(ps, S, i - 1)

RECURSIVE ImpactOf(_, _, _)
ImpactOf(ps, S, i) ==
    IF i = 0 THEN 0
    ELSE (IF i \in S THEN ps[i].impact ELSE 0) + ImpactOf(ps, S, i - 1)

\* the subsets of ps (as index sets) that fit the budget b
Feasible(ps, b) ==
    { S \in SUBSET (1..Len(ps)) : CostOf(ps, S, Len(ps)) <= b }

\* the 0/1 knapsack optimum of (ps, b), by enumeration
KnapsackOpt(ps, b) ==
    CHOOSE v \in { ImpactOf(ps, S, Len(ps)) : S \in Feasible(ps, b) } :
        \A S \in Feasible(ps, b) : ImpactOf(ps, S, Len(ps)) <= v

\* the total value a result reports; a 'no_solution' result counts as 0
ValueOf(result) ==
    IF result.status = "optimal" THEN result.solution.total_impact ELSE 0

\* C1: on a valid instance, a result of status 'optimal' reports the
\* maximum total impact over all subsets of the projects that fit the
\* budget.
C1_SolveIsOptimal ==
    (pc = "done" /\ ValidInstance(projects) /\ Last.result.status = "optimal")
        => Last.result.solution.total_impact = KnapsackOpt(projects, budget)

\* C2: on a valid instance, the total value solve returns is at least the
\* total value greedy_heuristic returns on the same projects and budget.
C2_SolveAtLeastGreedy ==
    (pc = "done" /\ heuristic # None /\ ValidInstance(projects))
        => ValueOf(Last.result) >= heuristic.solution.total_impact

\* C3: every result of status 'optimal' passes validate_solution: its
\* total_cost is within the budget and its total_impact is the sum of the
\* impacts of its selected_projects.
C3_OptimalIsValid ==
    (pc = "done" /\ Last.result.status = "optimal")
        => /\ validate_solution(Last.result, budget)
           /\ Last.result.solution.total_cost <= budget
           /\ Last.result.solution.total_impact
                = SumImpact(Last.result.solution.selected_projects)

\* C3 witness: solve has returned an 'optimal' result that selects at least
\* one project and leaves at least one out
C3_Witness ==
    /\ pc = "done"
    /\ Last.result.status = "optimal"
    /\ Last.result.solution.n_projects_selected >= 1
    /\ Last.result.solution.n_projects_selected < n_projects

\* the completions of a node: the sets of undecided projects (index >=
\* level, 0-based) that keep the total cost within the budget
Completions(ps, b, node) ==
    { S \in SUBSET ((node.level + 1)..Len(ps)) :
        node.total_cost + CostOf(ps, S, Len(ps)) <= b }

\* C4: on a valid instance, the bound of every node in the frontier is at
\* least the total impact of every feasible leaf that extends the node.
C4_BoundSound ==
    (pc = "running" /\ ValidInstance(projects))
        => \A k \in 1..Len(priority_queue) :
             LET node == priority_queue[k] IN
             \A S \in Completions(projects, budget, node) :
                RatLE(RatOfInt(node.total_impact
                                + ImpactOf(projects, S, Len(projects))),
                      node.bound)

\* C5: solve calls with the same project list and budget return identical
\* results, counters included, on one object or on fresh objects.
C5_Deterministic ==
    \A i, j \in 1..Len(results) :
        results[i].budget = results[j].budget
            => results[i].result = results[j].result

\* C6: for budgets b1 <= b2 on the same project list, the value solve
\* returns with b1 is at most the value it returns with b2.
C6_MonotoneInBudget ==
    \A i, j \in 1..Len(results) :
        (ValidInstance(projects) /\ results[i].budget <= results[j].budget)
            => ValueOf(results[i].result) <= ValueOf(results[j].result)

\* C7: on a valid instance solve returns 'no_solution' exactly when every
\* project costs more than the budget, and 'optimal' otherwise.
C7_NoSolutionIffNothingFits ==
    (pc = "done" /\ ValidInstance(projects))
        => /\ Last.result.status \in {"optimal", "no_solution"}
           /\ Last.result.status = "no_solution"
                <=> \A i \in 1..Len(projects) : projects[i].cost > budget

\* C8: on a valid instance solve never ends in an exception.
C8_NeverRaises ==
    ValidInstance(projects) => pc # "raised"

\* C9: the constructor raises exactly when the project list is empty or
\* the budget is <= 0; otherwise the object is built with that budget and
\* that list.
C9_ConstructorRejects ==
    pc # "init"
        => /\ pc = "rejected" <=> (projects = << >> \/ asked <= 0)
           /\ pc # "rejected" => (budget = asked /\ n_projects = Len(projects))

\* C9 witness: the constructor has rejected a non-empty list because of a
\* budget of 0
C9_Witness ==
    pc = "rejected" /\ projects # << >> /\ asked = 0

\* C10: no solver object holds a project of negative cost or negative
\* impact: the constructor rejects such a list.
C10_NegativeRejected ==
    ~ ValidInstance(projects) => pc \in {"init", "rejected"}

\* the states in which a BranchAndBound object exists
Built == pc \in {"ready", "running", "done", "raised"}

\* a project list is non-increasing in efficiency
NonIncreasing(ps) ==
    \A i, j \in 1..Len(ps) :
        i < j => RatGE(ps[i].efficiency, ps[j].efficiency)

\* C11: once a BranchAndBound object is built, its project list is
\* non-increasing in efficiency, where efficiency is impact / cost for
\* cost > 0 and 0 for cost = 0, and no step of solve changes the list.
C11_EfficiencyOrder ==
    /\ [](Built =>
            /\ NonIncreasing(projects)
            /\ \A i \in 1..Len(projects) :
                 projects[i].efficiency
                   = IF projects[i].cost > 0
                     THEN Rat(projects[i].impact, projects[i].cost)
                     ELSE RatOfInt(0))
    /\ [][Built => projects' = projects]_vars

\* C11 witness: solve has returned on a list the constructor had to
\* reorder: efficiencies differ and the ids no longer ascend
C11_Witness ==
    /\ pc = "done"
    /\ \E i \in 1..(Len(projects) - 1) :
         /\ projects[i].id > projects[i + 1].id
         /\ RatGT(projects[i].efficiency, projects[i + 1].efficiency)

\* C12: once a BranchAndBound object is built, any two projects of equal
\* efficiency stand in ascending id order in its list, whatever order the
\* caller listed them in.
C12_TiesByAscendingId ==
    Built => \A i, j \in 1..Len(projects) :
                (i < j /\ projects[i].efficiency = projects[j].efficiency)
                    => projects[i].id < projects[j].id

RECURSIVE Pow2(_)
Pow2(k) == IF k = 0 THEN 1 ELSE 2 * Pow2(k - 1)

\* C13: on a valid instance solve terminates: once the loop runs, the
\* frontier eventually becomes empty and solve returns; the loop is left
\* only with the frontier empty; every node in the frontier has level <= n
\* and at most 2^(n+1) - 1 nodes are popped (nodes_expanded counts the pops
\* of the one solve call of an object).
C13_Terminates ==
    /\ [](ValidInstance(projects) =>
            /\ pc \in {"done", "raised"} => priority_queue = << >>
            /\ \A k \in 1..Len(priority_queue) :
                 priority_queue[k].level <= n_projects
            /\ nodes_expanded <= Pow2(n_projects + 1) - 1)
    /\ (pc = "running" /\ ValidInstance(projects))
          ~> (pc = "done" /\ priority_queue = << >>)

\* C14: best-first order: the node heappop removes from the frontier has a
\* bound >= the bound of every node that stays in the frontier.
C14_BestFirst ==
    (pc = "running" /\ priority_queue # << >>)
        => LET popped == heappop(priority_queue) IN
           /\ Len(popped.heap) = Len(priority_queue) - 1
           /\ \A k \in 1..Len(popped.heap) :
                RatGE(popped.item.bound, popped.heap[k].bound)

\* C14 witness: the loop is about to pop from a frontier of three nodes
\* whose bounds are not all the same
C14_Witness ==
    /\ pc = "running"
    /\ Len(priority_queue) >= 3
    /\ \E j, k \in 1..Len(priority_queue) :
         RatGT(priority_queue[j].bound, priority_queue[k].bound)

\* the answer should_prune is specified to give for a node
Verdict(node) ==
    IF node.total_cost > budget THEN "infeasible"
    ELSE IF RatLE(node.bound, RatOfInt(best_value)) THEN "bound"
    ELSE "none"

\* the children should_prune is applied to when current_node is expanded:
\* the include child, then the exclude child, up to a raised exception
Examined(current_node) ==
    LET l == Child(projects, n_projects, budget, current_node, TRUE)
        r == Child(projects, n_projects, budget, current_node, FALSE)
    IN  IF l.raised THEN << >>
        ELSE IF r.raised THEN << l.node >>
        ELSE << l.node, r.node >>

\* the number of nodes of a sequence with the given verdict
HowMany(nodes, verdict) ==
    Cardinality({ k \in 1..Len(nodes) : Verdict(nodes[k]) = verdict })

\* C15: should_prune answers (True, 'infeasible') and increments only
\* nodes_pruned_infeasible when total_cost > budget; otherwise it answers
\* (True, 'bound') and increments only nodes_pruned_bound when bound <=
\* best_value; otherwise it answers (False, 'none') and changes no counter.
\* Checked on every iteration of the loop: on the popped node (a pruned one
\* is dropped) and on the children of an expanded one (the unpruned ones
\* enter the frontier); total_cost = budget counts as feasible.
C15_ShouldPrune ==
    [][(pc = "running" /\ priority_queue # << >>) =>
        LET popped == heappop(priority_queue)
            current_node == popped.item
            kids == Examined(current_node)
            dInf == nodes_pruned_infeasible' - nodes_pruned_infeasible
            dBnd == nodes_pruned_bound' - nodes_pruned_bound
            Answer(node) == [prune |-> Verdict(node) # "none",
                             reason |-> Verdict(node)]
        IN  /\ should_prune(current_node, budget, best_value)
                 = Answer(current_node)
            /\ CASE Verdict(current_node) = "infeasible" ->
                      dInf = 1 /\ dBnd = 0 /\ priority_queue' = popped.heap
                 [] Verdict(current_node) = "bound" ->
                      dInf = 0 /\ dBnd = 1 /\ priority_queue' = popped.heap
                 [] OTHER ->
                      IF current_node.level = n_projects
                      THEN dInf = 0 /\ dBnd = 0
                      ELSE /\ \A k \in 1..Len(kids) :
                                should_prune(kids[k], budget, best_value)
                                  = Answer(kids[k])
                           /\ dInf = HowMany(kids, "infeasible")
                           /\ dBnd = HowMany(kids, "bound")
                           /\ Len(priority_queue')
                                = Len(popped.heap) + HowMany(kids, "none")
      ]_vars

\* C15 witness: both counters have counted, and the node about to be
\* expanded has a child that uses the budget exactly and is not pruned
C15_Witness ==
    /\ pc = "running" /\ priority_queue # << >>
    /\ nodes_pruned_infeasible >= 1 /\ nodes_pruned_bound >= 1
    /\ LET current_node == heappop(priority_queue).item
           kids == IF current_node.level < n_projects
                   THEN Examined(current_node) ELSE << >>
       IN  /\ Verdict(current_node) = "none"
           /\ \E k \in 1..Len(kids) :
                kids[k].total_cost = budget /\ Verdict(kids[k]) = "none"

\* the indices (in the sorted list) of the projects greedy_heuristic chose
GreedyChosen ==
    { i \in 1..Len(projects) :
        \E k \in 1..Len(heuristic.solution.selected_projects) :
            heuristic.solution.selected_projects[k].id = projects[i].id }

RelaxationValues(ps, b, node) ==
    LET n == Len(ps)
        Whole == Completions(ps, b, node)
        Rest(S) == b - node.total_cost - CostOf(ps, S, n)
        Base(S) == node.total_impact + ImpactOf(ps, S, n)
    IN  { RatOfInt(Base(S)) : S \in Whole }
          \cup { Rat(Base(SJ[1]) * ps[SJ[2]].cost
                       + ps[SJ[2]].impact * Rest(SJ[1]),
                     ps[SJ[2]].cost) :
                 SJ \in { T \in Whole \X ((node.level + 1)..n) :
                            /\ T[2] \notin T[1]
                            /\ ps[T[2]].cost > Rest(T[1]) } }

\* total_impact plus the optimum of the continuous knapsack
RelaxationOpt(ps, b, node) ==
    CHOOSE v \in RelaxationValues(ps, b, node) :
        \A w \in RelaxationValues(ps, b, node) : RatLE(w, v)

\* C17: on a valid instance, the bound calculate_bound gives a node with
\* total_cost <= budget is its total_impact plus the optimum of the
\* continuous knapsack over the undecided projects with capacity budget -
\* total_cost.
C17_BoundIsRelaxation ==
    (pc = "running" /\ ValidInstance(projects))
        => \A k \in 1..Len(priority_queue) :
             priority_queue[k].total_cost <= budget
               => priority_queue[k].bound
                    = RelaxationOpt(projects, budget, priority_queue[k])

\* the nodes that carry a bound of calculate_bound while the loop runs: the
\* frontier, and the children of the node about to be popped if it is
\* expanded
Bounded ==
    { priority_queue[k] : k \in 1..Len(priority_queue) }
      \cup (IF priority_queue # << >>
               /\ heappop(priority_queue).item.level < n_projects
            THEN LET kids == Examined(heappop(priority_queue).item)
                 IN  { kids[k] : k \in 1..Len(kids) }
            ELSE { })

\* C18 as stated: calculate_bound gives every node whose total_cost equals
\* the budget, and every node of level n, exactly its total_impact.
C18_BoundAtFullBudget ==
    pc = "running"
        => \A node \in Bounded :
             (node.total_cost = budget \/ node.level = n_projects)
                 => node.bound = RatOfInt(node.total_impact)

\* C18 amended: calculate_bound gives exactly total_impact to every node of
\* level n, and to every node whose total_cost equals the budget and whose
\* next undecided project (index level) has a cost > 0.
C18_BoundAtFullBudgetPositive ==
    pc = "running"
        => \A node \in Bounded :
             (\/ node.level = n_projects
              \/ /\ node.level < n_projects
                 /\ node.total_cost = budget
                 /\ projects[node.level + 1].cost > 0)
                 => node.bound = RatOfInt(node.total_impact)

\* C18 witness: the frontier holds a node that uses the budget exactly with
\* projects of impact > 0 still undecided, the next of them at a cost > 0
C18_Witness ==
    /\ pc = "running"
    /\ \E k \in 1..Len(priority_queue) :
         LET node == priority_queue[k] IN
         /\ node.total_cost = budget
         /\ node.level < n_projects
         /\ projects[node.level + 1].cost > 0
         /\ projects[node.level + 1].impact > 0

\* C19: solver state is per call: whenever a solve call starts, on a new
\* object or on one that has solved before, the incumbent is none, the
\* incumbent value is 0 and nodes_expanded, nodes_pruned_infeasible,
\* nodes_pruned_bound and max_depth are 0.
C19_StatePerCall ==
    [][(pc \in {"ready", "done"} /\ pc' \in {"running", "raised"})
          => /\ best_solution' = None
             /\ best_value' = 0
             /\ nodes_expanded' = 0
             /\ nodes_pruned_infeasible' = 0
             /\ nodes_pruned_bound' = 0
             /\ max_depth' = 0
      ]_vars

\* C20: an iteration of the loop increments nodes_expanded exactly when the
\* popped node is expanded (neither pruned nor a leaf of level n), and by
\* one.
C20_ExpandedCountsExpansions ==
    [][(pc = "running" /\ priority_queue # << >>)
          => LET current_node == heappop(priority_queue).item
                 expanded == /\ Verdict(current_node) = "none"
                             /\ current_node.level # n_projects
             IN  nodes_expanded' = nodes_expanded + (IF expanded THEN 1 ELSE 0)
      ]_vars

\* C21: while solve runs, the incumbent is replaced only by the popped
\* node, and only if that node is a leaf (level = n) within the budget whose
\* total_impact is strictly greater than best_value; best_value never
\* decreases.
C21_IncumbentOnlyByBetterLeaf ==
    [][pc = "running" =>
        /\ best_value' >= best_value
        /\ (best_solution' # best_solution \/ best_value' # best_value)
             => /\ priority_queue # << >>
                /\ LET current_node == heappop(priority_queue).item IN
                   /\ current_node.level = n_projects
                   /\ current_node.total_cost <= budget
                   /\ current_node.total_impact > best_value
                   /\ best_solution' = current_node
                   /\ best_value' = current_node.total_impact
      ]_vars

\* C21 witness: a leaf has become the incumbent while other nodes are still
\* in the frontier
C21_Witness ==
    /\ pc = "running"
    /\ best_solution # None
    /\ best_solution.level = n_projects
    /\ priority_queue # << >>

\* C22: the bound test is repeated when a node is popped, against the
\* best_value of that moment: a popped node within the budget whose bound
\* is <= best_value is dropped and counted in nodes_pruned_bound; it
\* produces no child and leaves the incumbent as it is.
C22_PrunedAgainAtPop ==
    [][(/\ pc = "running"
        /\ priority_queue # << >>
        /\ heappop(priority_queue).item.total_cost <= budget
        /\ RatLE(heappop(priority_queue).item.bound, RatOfInt(best_value)))
          => /\ priority_queue' = heappop(priority_queue).heap
             /\ nodes_pruned_bound' = nodes_pruned_bound + 1
             /\ nodes_pruned_infeasible' = nodes_pruned_infeasible
             /\ best_solution' = best_solution
             /\ best_value' = best_value
             /\ pc' = "running"
      ]_vars

\* C22 witness: the node about to be popped entered the frontier with its
\* bound above best_value (a child is pushed only then, and its bound is
\* > 0) and an incumbent found since has reached that bound
C22_Witness ==
    /\ pc = "running"
    /\ priority_queue # << >>
    /\ best_solution # None
    /\ LET current_node == heappop(priority_queue).item IN
       /\ current_node.level >= 1
       /\ RatGT(current_node.bound, RatOfInt(0))
       /\ RatLE(current_node.bound, RatOfInt(best_value))

\* the positions (in the sorted list) of the projects a node has selected
SelectedAt(node) ==
    { i \in 1..Len(projects) :
        \E k \in 1..Len(node.selected) : node.selected[k] = projects[i].id }

\* a node stands for its partial assignment exactly
Exact(node) ==
    /\ 0 <= node.level /\ node.level <= n_projects
    /\ \A k \in 1..Len(node.selected) :
         \E i \in 1..node.level : projects[i].id = node.selected[k]
    /\ Cardinality(SelectedAt(node)) = Len(node.selected)
    /\ node.total_cost = CostOf(projects, SelectedAt(node), Len(projects))
    /\ node.total_impact = ImpactOf(projects, SelectedAt(node), Len(projects))

\* C23: every node solve creates (the root, every include and exclude
\* child, hence every frontier node and the incumbent) stands for its
\* partial assignment exactly: 0 <= level <= n, the selected ids are ids of
\* projects at index < level, total_cost and total_impact are the sums over
\* the selected projects; the include child of a node of level k adds
\* exactly project k and the exclude child adds nothing.
C23_NodesAreExact ==
    pc = "running" =>
        /\ \A node \in Bounded : Exact(node)
        /\ best_solution # None => Exact(best_solution)
        /\ (priority_queue # << >>
              /\ heappop(priority_queue).item.level < n_projects)
             => LET current_node == heappop(priority_queue).item
                    project == projects[current_node.level + 1]
                    kids == Examined(current_node)
                IN  /\ Len(kids) >= 1 =>
                         /\ kids[1].level = current_node.level + 1
                         /\ kids[1].selected
                              = Append(current_node.selected, project.id)
                         /\ kids[1].total_cost
                              = current_node.total_cost + project.cost
                         /\ kids[1].total_impact
                              = current_node.total_impact + project.impact
                    /\ Len(kids) = 2 =>
                         /\ kids[2].level = current_node.level + 1
                         /\ kids[2].selected = current_node.selected
                         /\ kids[2].total_cost = current_node.total_cost
                         /\ kids[2].total_impact = current_node.total_impact

\* C23 witness: the frontier holds a node of level >= 2 that has selected
\* one project and left another out, at a cost and an impact that differ
C23_Witness ==
    /\ pc = "running"
    /\ \E k \in 1..Len(priority_queue) :
         /\ priority_queue[k].level >= 2
         /\ Len(priority_queue[k].selected) = 1
         /\ priority_queue[k].total_cost # priority_queue[k].total_impact

\* C24 as stated: on a valid instance every node solve produces, pruned
\* later or not, has bound >= total_impact.
C24_BoundAtLeastValue ==
    (pc = "running" /\ ValidInstance(projects))
        => \A node \in Bounded :
             RatGE(node.bound, RatOfInt(node.total_impact))

\* C24 amended: on a valid instance every node solve produces with
\* total_cost <= budget has bound >= total_impact.
C24_BoundAtLeastValueFeasible ==
    (pc = "running" /\ ValidInstance(projects))
        => \A node \in Bounded :
             node.total_cost <= budget
                 => RatGE(node.bound, RatOfInt(node.total_impact))

\* C24 witness: a node within the budget that has selected something and
\* whose bound is above its total_impact
C24_Witness ==
    /\ pc = "running"
    /\ ValidInstance(projects)
    /\ \E node \in Bounded :
         /\ node.total_cost <= budget
         /\ node.total_impact >= 1
         /\ RatGT(node.bound, RatOfInt(node.total_impact))

\* C25: every node in the priority queue has total_cost <= budget, so
\* should_prune never answers 'infeasible' for a popped node, and
\* nodes_pruned_infeasible counts only children: it is the number of
\* children created over the budget (one less if calculate_bound raised on
\* the last of them).
C25_FrontierFeasible ==
    pc \in {"running", "done", "raised"} =>
        /\ \A k \in 1..Len(priority_queue) :
             priority_queue[k].total_cost <= budget
        /\ priority_queue # << >> =>
             should_prune(heappop(priority_queue).item, budget, best_value).reason
               # "infeasible"
        /\ nodes_pruned_infeasible <= tally.over_budget
        /\ pc # "raised" => nodes_pruned_infeasible = tally.over_budget

\* C25 witness: children have been rejected as over the budget and the
\* frontier holds a node that uses the budget exactly
C25_Witness ==
    /\ pc = "running"
    /\ nodes_pruned_infeasible >= 1
    /\ \E k \in 1..Len(priority_queue) :
         priority_queue[k].total_cost = budget

\* C26: in the solve call of a freshly built object the incumbent is
\* assigned at most once: once a leaf is the incumbent, every node popped
\* is pruned by bound, nothing is expanded or pushed, and the incumbent
\* stays as it is.
C26_IncumbentAssignedOnce ==
    [][(pc = "running" /\ best_solution # None) =>
        /\ best_solution' = best_solution
        /\ best_value' = best_value
        /\ priority_queue # << >> =>
             /\ priority_queue' = heappop(priority_queue).heap
             /\ nodes_pruned_bound' = nodes_pruned_bound + 1
             /\ tally'.pruned = tally.pruned + 1
             /\ tally'.expansions = tally.expansions
             /\ tally'.leaves = tally.leaves
             /\ tally'.pushes = tally.pushes
      ]_vars

\* C26 witness: with a leaf as the incumbent, solve has popped and pruned
\* a node and still has nodes in the frontier
C26_Witness ==
    /\ pc = "running"
    /\ best_solution # None
    /\ tally.leaves = 1
    /\ tally.pruned >= 1
    /\ priority_queue # << >>

\* C27: on a valid instance a child pushed into the frontier never has a
\* bound greater than the bound of the node it comes from, and the bounds
\* of the nodes popped one after the other never increase.
C27_BoundsNeverIncrease ==
    [][(pc = "running" /\ ValidInstance(projects) /\ priority_queue # << >>)
          => LET current_node == heappop(priority_queue).item
                 kids == IF Verdict(current_node) = "none"
                            /\ current_node.level < n_projects
                         THEN Examined(current_node) ELSE << >>
             IN  /\ \A k \in 1..Len(kids) :
                      Verdict(kids[k]) = "none"
                          => RatLE(kids[k].bound, current_node.bound)
                 /\ (pc' = "running" /\ priority_queue' # << >>)
                      => RatLE(heappop(priority_queue').item.bound,
                               current_node.bound)
      ]_vars

\* C28: from construction to the end of the solve call of a freshly built
\* object the incumbent record is consistent: either best_solution is None
\* and best_value is 0, or best_solution is a node of level n within the
\* budget and best_value is its total_impact, which is > 0; the result has
\* status 'optimal' exactly when best_solution is not None.
C28_IncumbentConsistent ==
    Built =>
        /\ \/ best_solution = None /\ best_value = 0
           \/ /\ best_solution # None
              /\ best_solution.level = n_projects
              /\ best_solution.total_cost <= budget
              /\ best_value = best_solution.total_impact
              /\ best_value > 0
        /\ pc = "done" =>
             /\ Last.result.status \in {"optimal", "no_solution"}
             /\ Last.result.status = "optimal" <=> best_solution # None

\* C28 witness: solve has returned 'optimal' with an incumbent that uses
\* less than the whole budget
C28_Witness ==
    /\ pc = "done"
    /\ Last.result.status = "optimal"
    /\ best_solution # None
    /\ best_solution.total_cost < budget

\* the frontier after a child has been tested and, if it passed, pushed
PushKept(h, kid) == IF Verdict(kid) = "none" THEN heappush(h, kid) ELSE h

\* C29: node accounting of the solve call of a freshly built object.  While
\* it runs, the nodes pushed are the nodes popped plus the nodes in the
\* frontier, and a popped node is either pruned, a leaf, or expanded.  An
\* expansion creates two children, the include child tested and pushed
\* before the exclude child.  When solve has returned, the frontier is
\* empty, every pushed node has been popped once (nodes_expanded counts the
\* pops), the pops are 1 + the children that passed the test at push time,
\* and every child was either pushed or counted by one prune counter.
C29_NodeAccounting ==
    /\ [](pc \in {"running", "done"} =>
            /\ tally.pushes = tally.pops + Len(priority_queue)
            /\ tally.pops = tally.pruned + tally.leaves + tally.expansions
            /\ nodes_expanded = tally.pops)
    /\ [](pc = "done" =>
            /\ priority_queue = << >>
            /\ tally.pops = tally.pushes
            /\ tally.children = 2 * tally.expansions
            /\ tally.children
                 = (tally.pushes - 1)
                     + (nodes_pruned_infeasible + nodes_pruned_bound
                          - tally.pruned))
    /\ [][(/\ pc = "running" /\ pc' = "running"
           /\ priority_queue # << >>
           /\ Verdict(heappop(priority_queue).item) = "none"
           /\ heappop(priority_queue).item.level < n_projects)
             => LET popped == heappop(priority_queue)
                    kids == Examined(popped.item)
                IN  /\ Len(kids) = 2
                    /\ tally'.children = tally.children + 2
                    /\ priority_queue'
                         = PushKept(PushKept(popped.heap, kids[1]), kids[2])
         ]_vars

\* C29 witness: solve has returned after expanding nodes, popping a leaf,
\* pruning a popped node and rejecting children for both reasons
C29_Witness ==
    /\ pc = "done"
    /\ tally.expansions >= 2
    /\ tally.leaves >= 1
    /\ tally.pruned >= 1
    /\ nodes_pruned_infeasible >= 1
    /\ nodes_pruned_bound > tally.pruned

\* the projects of a list, each with the number of times it occurs
Items(ps) == [ p \in { ps[i] : i \in 1..Len(ps) }
                 |-> Cardinality({ i \in 1..Len(ps) : ps[i] = p }) ]

\* C30: the constructor reorders the caller's own list: the first object
\* built from a list leaves it non-increasing in efficiency with the same
\* projects; every later step, a further BranchAndBound on the same list
\* with any valid budget included, leaves the order as it is; a rejected
\* construction (empty list or budget <= 0) leaves the list as it was.
C30_SortInPlaceIdempotent ==
    /\ [][(pc = "init" /\ pc' = "ready")
            => /\ NonIncreasing(projects')
               /\ Items(projects') = Items(projects)]_vars
    /\ [][Built => projects' = projects]_vars
    /\ [][pc' = "rejected" => projects' = projects]_vars

\* a second object has been built, with another budget, on a list that the
\* first construction reordered and that holds projects of equal efficiency
C30_Witness ==
    /\ pc = "ready" /\ obj >= 2 /\ results # << >>
    /\ budget # Last.budget
    /\ \E i, j \in 1..Len(projects) :
         i < j /\ projects[i].id > projects[j].id
    /\ \E i, j \in 1..Len(projects) :
         i < j /\ projects[i].efficiency = projects[j].efficiency

=============================================================================
